---------------------------- MODULE Spec2Model ----------------------------
(***************************************************************************)
(* A model of spectral_coherence: the direct periodogram path              *)
(* (density.py), the lag-window estimator and the normalisation of the     *)
(* factored path (coherence.py, utils.py).                                 *)
(*                                                                         *)
(* The library is a set of pure functions.  The state is the call in       *)
(* progress: the function called, its arguments and what it returned or    *)
(* raised.  Every action is one call, computed as the code computes it;    *)
(* Return drops the result (nothing persists between calls).  For          *)
(* smoothed_periodogram, stages lists the functions the call entered, in   *)
(* the order it entered them.                                              *)
(*                                                                         *)
(* Arrays are 1-based sequences here; the 0-based indices the code hands   *)
(* out (_select_indices, edge_indices) are kept 0-based as values.         *)
(***************************************************************************)
EXTENDS Integers, Sequences, FiniteSets, TLC

VARIABLES pc, fn, args, ret, stages

vars == <<pc, fn, args, ret, stages>>

(***************************************************************************)
(* Bounds of the exploration.                                              *)
(***************************************************************************)
\* largest number of samples / indices (10 reaches the (10, 3) example)
MaxN == 10
\* longest stack handed to _smooth on its own
MaxLen == 3
\* largest component of a stack entry handed to _smooth on its own
MaxVal == 1
\* largest number of channels
MaxM == 2
\* longest time series handed to the lag-window estimator
MaxT == 3
\* largest number of frequencies of a half-periodogram factor
MaxJ == 2
\* largest smoothing width of a half-periodogram factor
MaxK == 3
\* largest number of entries of a numeric time series or factor
MaxCells == 6

(***************************************************************************)
(* Python values.                                                          *)
(***************************************************************************)
\* an Optional[int] is <<>> (None) or <<v>>
None == <<>>

Some(v) == <<v>>

\* what a call hands back: a value, or the exception it raised
Returned(v) == [raised |-> "", value |-> v]

Raised(e) == [raised |-> e, value |-> <<>>]

\* an array given entry by entry, as the sequence of its entries
Array(f) == <<>> \o f

\* 0, 1, ..., n-1 as a sequence (np.arange(n))
arange(n) == Array([i \in 1..n |-> i - 1])

Min(a, b) == IF a <= b THEN a ELSE b

Max(a, b) == IF a >= b THEN a ELSE b

\* x[:h] for h >= 0
SliceHead(x, h) == SubSeq(x, 1, Min(h, Len(x)))

\* x[-h:] for h > 0
SliceTail(x, h) == SubSeq(x, Max(Len(x) - h, 0) + 1, Len(x))

\* entrywise sum of two vectors of the same length
VecAdd(u, v) == Array([i \in 1..Len(u) |-> u[i] + v[i]])

RECURSIVE VecSum(_, _, _)
\* s[lo] + ... + s[hi], entrywise (lo <= hi)
VecSum(s, lo, hi) == IF lo = hi THEN s[lo] ELSE VecAdd(s[lo], VecSum(s, lo + 1, hi))

(***************************************************************************)
(* density.py: _smooth                                                     *)
(*                                                                         *)
(* A stack is a sequence of entries along the frequency axis; an entry is  *)
(* a vector of integers (the components of one matrix).  The Dirichlet     *)
(* window is ones(B)/B, so an output entry is a sum of input entries over  *)
(* the denominator B: [num |-> vector, den |-> B].                         *)
(***************************************************************************)
\* PadCircular with the two copied blocks on the wrong sides
PadCircular_swapped(x, half_window) ==
    IF half_window # 0
    THEN SliceHead(x, half_window) \o x \o SliceTail(x, half_window)
    ELSE x

\* the padding of lines 36-39: last entries, x, first entries
PadCircular(x, half_window) ==
    IF half_window # 0
    THEN SliceTail(x, half_window) \o x \o SliceHead(x, half_window)
    ELSE x

\* fftconvolve(x, window, mode="valid", axes=0) with window = ones(B)/B:
\* the full overlaps of the shorter operand slid along the longer one
ConvolveValid(x, B) ==
    IF Len(x) >= B
    THEN [k \in 1..(Len(x) - B + 1) |-> [num |-> VecSum(x, k, k + B - 1), den |-> B]]
    ELSE [k \in 1..(B - Len(x) + 1) |-> [num |-> VecSum(x, 1, Len(x)), den |-> B]]

_smooth(x, B) ==
    IF B % 2 # 1 THEN Raised("AssertionError")
    ELSE LET half_window == (B - 1) \div 2
         IN  Returned(ConvolveValid(PadCircular(x, half_window), B))

(***************************************************************************)
(* density.py: _select_indices                                             *)
(***************************************************************************)
\* RoundHalfEven with halves rounded up instead
RoundHalfEven_up(p, q) == (2 * p + q) \div (2 * q)

\* np.round of the rational p/q (q > 0, p >= 0): to nearest, halves to even
RoundHalfEven(p, q) ==
    LET f == p \div q
        r == p % q
    IN  IF 2 * r < q THEN f
        ELSE IF 2 * r > q THEN f + 1
        ELSE IF f % 2 = 0 THEN f ELSE f + 1

\* np.round(np.linspace(0, stop, num)).astype(int), num >= 1: the i-th point
\* is i * stop / (num - 1); a single point is the start
RoundedLinspace(stop, num) ==
    Array([i \in 1..num |-> IF num = 1 THEN 0 ELSE RoundHalfEven((i - 1) * stop, num - 1)])

_select_indices(n, target_count) ==
    IF n <= target_count THEN arange(n)
    ELSE RoundedLinspace(n - 1, target_count)

(***************************************************************************)
(* density.py: _get_B_spaced_freqs_mask                                    *)
(***************************************************************************)
RECURSIVE SliceStep(_, _, _)

\* _get_B_spaced_freqs_mask with the slice [B::B] in place of [::B]
_get_B_spaced_freqs_mask_from_B(n_samples, B) ==
    LET visited == SliceStep(B, B, n_samples)
    IN  [i \in 1..n_samples |-> (i - 1) \in visited]

\* the positions start, start+step, ... below n that the slice [start::step] visits
SliceStep(start, step, n) ==
    IF start >= n THEN {} ELSE {start} \cup SliceStep(start + step, step, n)

_get_B_spaced_freqs_mask(n_samples, B) ==
    LET visited == SliceStep(0, B, n_samples)
    IN  [i \in 1..n_samples |-> (i - 1) \in visited]

(***************************************************************************)
(* density.py: _is_B_valid                                                 *)
(***************************************************************************)
\* _is_B_valid without the parity test
_is_B_valid_any_parity(B, n_samples) == B > 0 /\ B < n_samples

\* _is_B_valid with B <= n_samples in place of B < n_samples
_is_B_valid_le(B, n_samples) == B > 0 /\ B <= n_samples /\ B % 2 = 1

_is_B_valid(B, n_samples) == B > 0 /\ B < n_samples /\ B % 2 = 1

(***************************************************************************)
(* density.py: _periodogram                                                *)
(*                                                                         *)
(* A time series is described by its shape and by whether the input        *)
(* validator accepts it.  The Fourier coefficients are not computed: row j *)
(* of np.fft.fft(x) is the coefficient of raw bin j, written j.  The       *)
(* periodogram matrix of coefficient j is written as the unit vector e_j   *)
(* of length n_samples, so that an average of periodogram matrices is a    *)
(* vector of multiplicities over a denominator.  A frequency k/n_samples   *)
(* is written by its numerator k.                                          *)
(***************************************************************************)
\* np.fft.fftfreq(n) * n: 0, 1, ..., (n-1)//2, -(n//2), ..., -1
fftfreq(n) == Array([i \in 1..n |-> IF i <= (n - 1) \div 2 + 1 THEN i - 1 ELSE i - 1 - n])

\* argsort leaving the order as it is
argsort_identity(s) == arange(Len(s))

\* np.argsort of distinct values: the 0-based index of the p-th smallest
argsort(s) ==
    Array([p \in 1..Len(s) |->
        (CHOOSE j \in 1..Len(s) : Cardinality({i \in 1..Len(s) : s[i] < s[j]}) = p - 1) - 1])

\* a[ind] for an array ind of 0-based indices
Take(a, ind) == Array([p \in 1..Len(ind) |-> a[ind[p] + 1]])

\* a[mask] for a boolean mask of the length of a
Compress(a, mask) ==
    LET F[i \in 0..Len(a)] ==
            IF i = 0 THEN <<>>
            ELSE IF mask[i] THEN Append(F[i - 1], a[i]) ELSE F[i - 1]
    IN  F[Len(a)]

Range(s) == {s[i] : i \in 1..Len(s)}

RECURSIVE SortedSeq(_)
\* np.sort(np.unique(.)) of a set of integers
SortedSeq(S) ==
    IF S = {} THEN <<>>
    ELSE LET m == CHOOSE m \in S : \A y \in S : m <= y
         IN  <<m>> \o SortedSeq(S \ {m})

\* EdgeIndices keeping the selected indices only, without their neighbours
EdgeIndices_no_neighbours(indices, B, n_samples) ==
    SortedSeq({i % n_samples : i \in Range(indices)})

\* EdgeIndices dropping the neighbours that fall outside 0..n_samples-1
\* instead of wrapping them around
EdgeIndices_no_wrap(indices, B, n_samples) ==
    LET around == UNION {(i - B \div 2)..(i + B \div 2) : i \in Range(indices)}
    IN  SortedSeq({e \in around : e >= 0 /\ e < n_samples})

\* lines 148-152: arange(i - B//2, i + B//2 + 1) around every selected i,
\* taken mod n_samples, deduplicated and sorted
EdgeIndices(indices, B, n_samples) ==
    LET around == UNION {(i - B \div 2)..(i + B \div 2) : i \in Range(indices)}
    IN  SortedSeq({e % n_samples : e \in around})

\* EstimatedMask marking every retained frequency
EstimatedMask_all(freqs, estimated_freqs) == [p \in 1..Len(freqs) |-> TRUE]

\* line 155: np.isin(freqs, estimated_freqs)
EstimatedMask(freqs, estimated_freqs) ==
    Array([p \in 1..Len(freqs) |-> freqs[p] \in Range(estimated_freqs)])

\* lines 160-161: the outer product of the coefficient of raw bin c with its
\* conjugate, as the unit vector e_c
OuterProduct(c, n_samples) == Array([j \in 1..n_samples |-> IF j = c + 1 THEN 1 ELSE 0])

_periodogram(x, n_max_freqs, B) ==
    IF ~((n_max_freqs = None /\ B = None) \/ (n_max_freqs # None /\ B # None))
    THEN Raised("AssertionError: n_max_freqs and B should be either both None or both not None")
    ELSE IF n_max_freqs # None /\ ~(n_max_freqs[1] > 0)
    THEN Raised("AssertionError: n_max_freqs must be positive")
    ELSE
    LET n_samples == x.n_samples
        idx == argsort(fftfreq(n_samples))
        freqs0 == Take(fftfreq(n_samples), idx)
        fft0 == Take(arange(n_samples), idx)
        indices == _select_indices(n_samples, n_max_freqs[1])
        estimated_freqs == Take(freqs0, indices)
        edge_indices == EdgeIndices(indices, B[1], n_samples)
        fft == IF n_max_freqs # None THEN Take(fft0, edge_indices) ELSE fft0
        freqs == IF n_max_freqs # None THEN Take(freqs0, edge_indices) ELSE freqs0
        mask_estimated_freqs ==
            IF n_max_freqs # None THEN EstimatedMask(freqs, estimated_freqs)
            ELSE [p \in 1..Len(freqs) |-> TRUE]
    IN  Returned([periodogram |-> Array([p \in 1..Len(fft) |-> OuterProduct(fft[p], n_samples)]),
                  freqs |-> freqs,
                  mask_estimated_freqs |-> mask_estimated_freqs])

(***************************************************************************)
(* density.py: smoothed_periodogram                                        *)
(***************************************************************************)
\* utils.is_sane_time_series: whether the validator accepts the series
is_sane_time_series(x) == x.sane

\* the outcome of a call and the functions it entered on the way
Run(r, entered) == [ret |-> r, stages |-> entered]

\* smoothed_periodogram_run with the B check ahead of the input validation
smoothed_periodogram_run_B_first(x, B, n_max_freqs) ==
    IF ~_is_B_valid(B, x.n_samples)
    THEN Run(Raised("AssertionError: B must be positive, smaller than the number of samples, and odd"),
             <<"_is_B_valid">>)
    ELSE IF ~is_sane_time_series(x)
    THEN Run(Raised("AssertionError: invalid time series"), <<"_is_B_valid", "is_sane_time_series">>)
    ELSE
    LET p == _periodogram(x, n_max_freqs, IF n_max_freqs # None THEN Some(B) ELSE None)
        s == _smooth(p.value.periodogram, B)
    IN  IF p.raised # "" THEN Run(p, <<"_is_B_valid", "is_sane_time_series", "_periodogram">>)
        ELSE Run(IF s.raised # "" THEN s
                 ELSE Returned([matrices |-> Compress(s.value, p.value.mask_estimated_freqs),
                                freqs |-> Compress(p.value.freqs, p.value.mask_estimated_freqs)]),
                 <<"_is_B_valid", "is_sane_time_series", "_periodogram", "_smooth">>)

\* lines 208-222, statement by statement: the validation and its assert, the
\* B check and its assert, _periodogram, _smooth, the masked return
smoothed_periodogram_run(x, B, n_max_freqs) ==
    IF ~is_sane_time_series(x)
    THEN Run(Raised("AssertionError: invalid time series"), <<"is_sane_time_series">>)
    ELSE IF ~_is_B_valid(B, x.n_samples)
    THEN Run(Raised("AssertionError: B must be positive, smaller than the number of samples, and odd"),
             <<"is_sane_time_series", "_is_B_valid">>)
    ELSE
    LET p == _periodogram(x, n_max_freqs, IF n_max_freqs # None THEN Some(B) ELSE None)
    IN  IF p.raised # "" THEN Run(p, <<"is_sane_time_series", "_is_B_valid", "_periodogram">>)
        ELSE
        LET s == _smooth(p.value.periodogram, B)
            r == IF s.raised # "" THEN s
                 ELSE IF Len(s.value) # Len(p.value.mask_estimated_freqs) THEN Raised("IndexError")
                 ELSE Returned([matrices |-> Compress(s.value, p.value.mask_estimated_freqs),
                                freqs |-> Compress(p.value.freqs, p.value.mask_estimated_freqs)])
        IN  Run(r, <<"is_sane_time_series", "_is_B_valid", "_periodogram", "_smooth">>)

smoothed_periodogram(x, B, n_max_freqs) == smoothed_periodogram_run(x, B, n_max_freqs).ret

(***************************************************************************)
(* density.py: _compute_autocors, lag_window                               *)
(*                                                                         *)
(* A numeric time series is a sequence of rows, a row a sequence of        *)
(* complex integers <<re, im>>.  A mean is kept as the sum over the number *)
(* of terms, [re, im, den]; den = 0 is the NaN numpy gives for the mean of *)
(* an empty slice.                                                         *)
(***************************************************************************)
ZMul(a, b) == <<a[1] * b[1] - a[2] * b[2], a[1] * b[2] + a[2] * b[1]>>

ZConj(a) == <<a[1], -a[2]>>

\* conjugation of a mean
QConj(a) == [re |-> a.re, im |-> -a.im, den |-> a.den]

QAdd(a, b) == [re |-> a.re * b.den + b.re * a.den,
               im |-> a.im * b.den + b.im * a.den,
               den |-> a.den * b.den]

\* the product of a mean and a complex integer
QScale(a, z) == [re |-> a.re * z[1] - a.im * z[2], im |-> a.re * z[2] + a.im * z[1], den |-> a.den]

RECURSIVE ZSum(_, _)
\* the sum of the complex integers f[1..n]
ZSum(f, n) == IF n = 0 THEN <<0, 0>> ELSE VecAdd(ZSum(f, n - 1), f[n])

\* np.mean(rows, axis=0) of a sequence of rows of n_features complex integers
MeanRows(rows, n_features) ==
    [m \in 1..n_features |->
        LET total == ZSum([t \in 1..Len(rows) |-> rows[t][m]], Len(rows))
        IN  [re |-> total[1], im |-> total[2], den |-> Len(rows)]]

\* line 245: np.mean(x[l:, :] * np.conj(x[:-l, :]), axis=0) for a lag l >= 1
PositiveLag(x, l, n_features) ==
    MeanRows([t \in 1..Max(Len(x) - l, 0) |->
                 [m \in 1..n_features |-> ZMul(x[t + l][m], ZConj(x[t][m]))]], n_features)

\* the rows of a table in reverse order (a[::-1, :])
Reverse(a) == [i \in 1..Len(a) |-> a[Len(a) + 1 - i]]

\* np.array of an empty list is one-dimensional, so L < 1 makes the
\* two-dimensional index [::-1, :] of line 247 raise IndexError
_compute_autocors(x, L) ==
    LET n_features == Len(x[1])
        r_l_positive_hats == Array([l \in 1..L |-> PositiveLag(x, l, n_features)])
        r_l_negative_hats == Array([i \in 1..L |->
                                 [m \in 1..n_features |-> QConj(Reverse(r_l_positive_hats)[i][m])]])
        r_l_0_hats == MeanRows([t \in 1..Len(x) |->
                                   [m \in 1..n_features |-> <<ZMul(x[t][m], ZConj(x[t][m]))[1], 0>>]],
                               n_features)
    IN  IF L < 1 THEN Raised("IndexError")
        ELSE Returned(r_l_negative_hats \o <<r_l_0_hats>> \o r_l_positive_hats)

\* exp(-2j*pi*l*nu) at nu = quarter/4: a power of -i
ExpQuarter(l, quarter) ==
    LET e == (l * quarter) % 4
    IN  IF e = 0 THEN <<1, 0>> ELSE IF e = 1 THEN <<0, -1>> ELSE IF e = 2 THEN <<-1, 0>> ELSE <<0, 1>>

RECURSIVE QSum(_, _)
\* the sum of the means f[1..n], n >= 1
QSum(f, n) == IF n = 1 THEN f[1] ELSE QAdd(QSum(f, n - 1), f[n])

\* lag_window(X, L)(nu) at nu = quarter/4: np.sum(r_l_hats * exp_term(nu), axis=0)
lag_window(X, L, quarter) ==
    LET r == _compute_autocors(X, L)
        n_features == Len(X[1])
    IN  IF r.raised # "" THEN r
        ELSE Returned([m \in 1..n_features |->
                          QSum([i \in 1..(2 * L + 1) |->
                                   QScale(r.value[i][m], ExpQuarter(i - 1 - L, quarter))],
                               2 * L + 1)])

(***************************************************************************)
(* utils.py, coherence.py: the normalisation of the factored path          *)
(*                                                                         *)
(* A real number is num/sqrt(rad) with integers num and rad >= 1, or an    *)
(* infinity (num its sign) or NaN, as IEEE arithmetic produces them.  A    *)
(* complex number is [re, im] of two reals.  A factor hSs is indexed       *)
(* [f][k][m]: frequency, position in the smoothing window, channel.        *)
(***************************************************************************)
RFin(n, r) == [kind |-> "fin", num |-> n, rad |-> IF n = 0 THEN 1 ELSE r]

RInf(sign) == [kind |-> "inf", num |-> sign, rad |-> 1]

RNaN == [kind |-> "nan", num |-> 0, rad |-> 1]

RZero == RFin(0, 1)

ROne == RFin(1, 1)

Sign(n) == IF n > 0 THEN 1 ELSE IF n < 0 THEN -1 ELSE 0

RNeg(a) == [a EXCEPT !.num = -a.num]

RMul(a, b) ==
    IF a.kind = "nan" \/ b.kind = "nan" THEN RNaN
    ELSE IF a.kind = "inf" \/ b.kind = "inf"
    THEN (IF a.num = 0 \/ b.num = 0 THEN RNaN ELSE RInf(Sign(a.num) * Sign(b.num)))
    ELSE RFin(a.num * b.num, a.rad * b.rad)

\* the sum of two reals; two non-zero finite terms share their radicand in
\* every sum this module forms
RAdd(a, b) ==
    IF a.kind = "nan" \/ b.kind = "nan" THEN RNaN
    ELSE IF a.kind = "inf" /\ b.kind = "inf" THEN (IF a.num = b.num THEN a ELSE RNaN)
    ELSE IF a.kind = "inf" THEN a
    ELSE IF b.kind = "inf" THEN b
    ELSE IF a.num = 0 THEN b
    ELSE IF b.num = 0 THEN a
    ELSE RFin(a.num + b.num, CHOOSE r \in {a.rad} : r = b.rad)

RSub(a, b) == RAdd(a, RNeg(b))

\* 1 / mx.sqrt(d) of a real integer d (line 17): inf at 0, NaN below
RInvSqrt(d) ==
    IF d.kind # "fin" THEN RNaN
    ELSE IF d.num > 0 THEN RFin(1, d.num)
    ELSE IF d.num = 0 THEN RInf(1)
    ELSE RNaN

Complex(re, im) == [re |-> re, im |-> im]

\* a real array entry promoted to complex
FromReal(v) == Complex(v, RZero)

\* the scalar 1j
ImagUnit == Complex(RZero, ROne)

CAdd(a, b) == Complex(RAdd(a.re, b.re), RAdd(a.im, b.im))

CSub(a, b) == Complex(RSub(a.re, b.re), RSub(a.im, b.im))

CMul(a, b) == Complex(RSub(RMul(a.re, b.re), RMul(a.im, b.im)),
                      RAdd(RMul(a.re, b.im), RMul(a.im, b.re)))

\* utils.mx_real: x.astype(float32) keeps the real part
mx_real(z) == z.re

\* mx_imag without the leading minus
mx_imag_negated(z) == mx_real(CMul(ImagUnit, z))

\* utils.mx_imag: -(1j * x).astype(float32)
mx_imag(z) == RNeg(mx_real(CMul(ImagUnit, z)))

\* mx_conj returning its argument unconjugated
mx_conj_identity(z) == CAdd(FromReal(mx_real(z)), CMul(ImagUnit, FromReal(mx_imag(z))))

\* utils.mx_conj: mx_real(x) - 1j * mx_imag(x)
mx_conj(z) == CSub(FromReal(mx_real(z)), CMul(ImagUnit, FromReal(mx_imag(z))))

\* mx_real of every entry of a factor
RealParts(a) ==
    Array([f \in 1..Len(a) |-> Array([k \in 1..Len(a[f]) |->
        Array([m \in 1..Len(a[f][k]) |-> mx_real(a[f][k][m])])])])

\* mx_imag of every entry of a factor
ImagParts(a) ==
    Array([f \in 1..Len(a) |-> Array([k \in 1..Len(a[f]) |->
        Array([m \in 1..Len(a[f][k]) |-> mx_imag(a[f][k][m])])])])

\* mx_conj of every entry of a factor
Conjugates(a) ==
    Array([f \in 1..Len(a) |-> Array([k \in 1..Len(a[f]) |->
        Array([m \in 1..Len(a[f][k]) |-> mx_conj(a[f][k][m])])])])

\* mx_real of every entry of a matrix
RealMatrix(a) ==
    Array([i \in 1..Len(a) |-> Array([j \in 1..Len(a[i]) |-> mx_real(a[i][j])])])

\* mx_imag of every entry of a matrix
ImagMatrix(a) ==
    Array([i \in 1..Len(a) |-> Array([j \in 1..Len(a[i]) |-> mx_imag(a[i][j])])])

RECURSIVE RSum(_, _)
\* the sum of the reals t[1..n], n >= 1
RSum(t, n) == IF n = 1 THEN t[1] ELSE RAdd(RSum(t, n - 1), t[n])

\* mx.einsum on real arrays, for the two contractions the module uses
einsum(subscripts, a, b) ==
    IF subscripts = "fkm,fkm->fm"
    THEN Array([f \in 1..Len(a) |-> Array([m \in 1..Len(a[f][1]) |->
             RSum([k \in 1..Len(a[f]) |-> RMul(a[f][k][m], b[f][k][m])], Len(a[f]))])])
    ELSE Array([i \in 1..Len(a) |-> Array([l \in 1..Len(a[i][1]) |-> Array([m \in 1..Len(a[i][1]) |->
             RSum([k \in 1..Len(a[i]) |-> RMul(a[i][k][l], b[i][k][m])], Len(a[i]))])])])

\* utils.mx_einsum: the complex contraction from four real ones
mx_einsum(subscripts, a, b) ==
    LET ar == RealParts(a)
        ai == ImagParts(a)
        br == RealParts(b)
        bi == ImagParts(b)
        rr == einsum(subscripts, ar, br)
        ii == einsum(subscripts, ai, bi)
        ri == einsum(subscripts, ar, bi)
        ir == einsum(subscripts, ai, br)
        Entry(re, im) == CAdd(FromReal(re), CMul(ImagUnit, FromReal(im)))
    IN  IF subscripts = "fkm,fkm->fm"
        THEN Array([f \in 1..Len(rr) |-> Array([m \in 1..Len(rr[f]) |->
                 Entry(RSub(rr[f][m], ii[f][m]), RAdd(ri[f][m], ir[f][m]))])])
        ELSE Array([i \in 1..Len(rr) |-> Array([l \in 1..Len(rr[i]) |-> Array([m \in 1..Len(rr[i][l]) |->
                 Entry(RSub(rr[i][l][m], ii[i][l][m]), RAdd(ri[i][l][m], ir[i][l][m]))])])])

\* coherence.half_coherences, from the factor hSs that
\* half_smoothed_periodograms(x, B, freqs) returned
half_coherences(hSs) ==
    LET sq == mx_einsum("fkm,fkm->fm", hSs, Conjugates(hSs))
        Ds == Array([f \in 1..Len(sq) |-> Array([m \in 1..Len(sq[f]) |-> RInvSqrt(mx_real(sq[f][m]))])])
    IN  Array([f \in 1..Len(hSs) |-> Array([k \in 1..Len(hSs[f]) |-> Array([m \in 1..Len(hSs[f][k]) |->
            CMul(hSs[f][k][m], FromReal(Ds[f][m]))])])])

\* coherence.coherences, from the same factor; no statement of it raises
coherences(hSs) ==
    LET hCs == half_coherences(hSs)
    IN  Returned(mx_einsum("ikl,ikm->ilm", hCs, Conjugates(hCs)))

\* density.half_smoothed_periodograms: the factors it can return for a
\* smoothing width B, one B x M block of complex numbers per frequency
HalfPeriodogramFactors(B) ==
    UNION {[1..shape[1] -> [1..B -> [1..shape[2] ->
               {Complex(RFin(z[1], 1), RFin(z[2], 1)) : z \in {<<0, 0>>, <<1, 0>>, <<0, 1>>}}]]] :
              shape \in {sh \in (1..MaxJ) \X (1..MaxM) : sh[1] * B * sh[2] <= MaxCells}}

\* an mx.array of two dimensions: its dtype and its rows; the entries of a
\* float32 array are reals, those of a complex64 array complex numbers
MxArray(dtype, data) == [dtype |-> dtype, data |-> data]

\* a @ b of two real matrices
MatMul(a, b) ==
    Array([i \in 1..Len(a) |-> Array([j \in 1..Len(b[1]) |->
        RSum([k \in 1..Len(b) |-> RMul(a[i][k], b[k][j])], Len(b))])])

\* a + b of two real matrices
MatAdd(a, b) ==
    Array([i \in 1..Len(a) |-> Array([j \in 1..Len(a[i]) |-> RAdd(a[i][j], b[i][j])])])

\* a - b of two real matrices
MatSub(a, b) ==
    Array([i \in 1..Len(a) |-> Array([j \in 1..Len(a[i]) |-> RSub(a[i][j], b[i][j])])])

\* utils.mx_matmul: the branch on the two dtypes, the real products of each
\* branch, and real_part + 1j * imag_part unless both operands are real
mx_matmul(a, b) ==
    LET a_is_complex == a.dtype = "complex64"
        b_is_complex == b.dtype = "complex64"
        a_real == RealMatrix(a.data)
        a_imag == ImagMatrix(a.data)
        b_real == RealMatrix(b.data)
        b_imag == ImagMatrix(b.data)
        real_part ==
            IF a_is_complex /\ b_is_complex
            THEN MatSub(MatMul(a_real, b_real), MatMul(a_imag, b_imag))
            ELSE IF a_is_complex THEN MatMul(a_real, b.data)
            ELSE MatMul(a.data, b_real)
        imag_part ==
            IF a_is_complex /\ b_is_complex
            THEN MatAdd(MatMul(a_real, b_imag), MatMul(a_imag, b_real))
            ELSE IF a_is_complex THEN MatMul(a_imag, b.data)
            ELSE MatMul(a.data, b_imag)
    IN  IF ~a_is_complex /\ ~b_is_complex
        THEN MxArray("float32", MatMul(a.data, b.data))
        ELSE MxArray("complex64",
                 Array([i \in 1..Len(real_part) |-> Array([j \in 1..Len(real_part[i]) |->
                     CAdd(FromReal(real_part[i][j]), CMul(ImagUnit, FromReal(imag_part[i][j])))])]))

(***************************************************************************)
(* The calls.                                                              *)
(***************************************************************************)
\* the time series: n_samples x n_features, accepted by the validator or not
TimeSeries == [n_samples : 1..MaxN, n_features : 1..MaxM, sane : BOOLEAN]

\* the entries of a numeric time series or factor: 0, 1 and i
ComplexEntries == {<<0, 0>>, <<1, 0>>, <<0, 1>>}

\* the numeric time series: n_samples rows of n_features entries
NumericSeries ==
    UNION {[1..shape[1] -> [1..shape[2] -> ComplexEntries]] :
              shape \in {sh \in (1..MaxT) \X (1..MaxM) : sh[1] * sh[2] <= MaxCells}}

\* the series of the tests of the lag-window estimator, [1, 2, 3, 4, 5]
TestSeries == <<(<<(<<1, 0>>)>>), (<<(<<2, 0>>)>>), (<<(<<3, 0>>)>>), (<<(<<4, 0>>)>>), (<<(<<5, 0>>)>>)>>

OptionalInts(lo, hi) == {None} \cup {Some(v) : v \in lo..hi}
\* the entries of a stack handed to _smooth: complex numbers <<re, im>>
SmoothEntries == (0..MaxVal) \X (0..MaxVal)

\* the stack of the test of _smooth, [1, 2, 3, 4, 5] as complex numbers
TestStack == <<(<<1, 0>>), (<<2, 0>>), (<<3, 0>>), (<<4, 0>>), (<<5, 0>>)>>

SmoothStacks == UNION {[1..n -> SmoothEntries] : n \in 1..MaxLen} \cup {TestStack}

Dtypes == {"float32", "complex64"}

\* the entries of a complex64 operand of mx_matmul: 0, 1, i and 1 + i
MatmulEntries == ComplexEntries \cup {<<1, 1>>}

\* the entries of a float32 operand of mx_matmul
RealEntries == {-1, 0, 1}

\* the shapes <<p, q, r>> of a product of a p x q and a q x r matrix
MatmulShapes ==
    {sh \in (1..MaxM) \X (1..MaxM) \X (1..MaxM) : sh[2] * (sh[1] + sh[3]) <= MaxCells}

\* the arrays of a dtype and a shape
MxArrays(dtype, rows, cols) ==
    {MxArray(dtype, data) :
        data \in [1..rows -> [1..cols ->
            IF dtype = "complex64"
            THEN {Complex(RFin(z[1], 1), RFin(z[2], 1)) : z \in MatmulEntries}
            ELSE {RFin(v, 1) : v \in RealEntries}]]}

Init ==
    /\ pc = "idle"
    /\ fn = ""
    /\ args = <<>>
    /\ ret = Returned(<<>>)
    /\ stages = <<>>

\* the call of f with the arguments a runs to its end and hands back r
Call(f, a, r) ==
    /\ pc' = "done"
    /\ fn' = f
    /\ args' = a
    /\ ret' = r
    /\ stages' = <<>>

Call_smooth ==
    /\ pc = "idle"
    /\ \E x \in SmoothStacks, B \in 0..(2 * MaxLen + 5) :
        Call("_smooth", [x |-> x, B |-> B], _smooth(x, B))

Call_select_indices ==
    /\ pc = "idle"
    /\ \E n \in 1..MaxN, target_count \in 1..(MaxN + 1) :
        Call("_select_indices", [n |-> n, target_count |-> target_count],
             Returned(_select_indices(n, target_count)))

Call_get_B_spaced_freqs_mask ==
    /\ pc = "idle"
    /\ \E n_samples \in 1..MaxN, B \in 1..(MaxN + 1) :
        Call("_get_B_spaced_freqs_mask", [n_samples |-> n_samples, B |-> B],
             Returned(_get_B_spaced_freqs_mask(n_samples, B)))

Call_is_B_valid ==
    /\ pc = "idle"
    /\ \E B \in (-2)..(MaxN + 1), n_samples \in 0..MaxN :
        Call("_is_B_valid", [B |-> B, n_samples |-> n_samples],
             Returned(_is_B_valid(B, n_samples)))

Call_periodogram ==
    /\ pc = "idle"
    /\ \E x \in TimeSeries, n_max_freqs \in OptionalInts(-1, MaxN + 1),
       B \in OptionalInts(0, MaxN + 1) :
        Call("_periodogram", [x |-> x, n_max_freqs |-> n_max_freqs, B |-> B],
             _periodogram(x, n_max_freqs, B))

Call_smoothed_periodogram ==
    /\ pc = "idle"
    /\ \E x \in TimeSeries, B \in (-1)..(MaxN + 1), n_max_freqs \in OptionalInts(-1, MaxN + 1) :
        LET run == smoothed_periodogram_run(x, B, n_max_freqs)
        IN  /\ pc' = "done"
            /\ fn' = "smoothed_periodogram"
            /\ args' = [x |-> x, B |-> B, n_max_freqs |-> n_max_freqs]
            /\ ret' = run.ret
            /\ stages' = run.stages

Call_compute_autocors ==
    /\ pc = "idle"
    /\ \E x \in NumericSeries \cup {TestSeries} : \E L \in 0..Len(x) :
        Call("_compute_autocors", [x |-> x, L |-> L], _compute_autocors(x, L))

Call_lag_window ==
    /\ pc = "idle"
    /\ \E X \in NumericSeries \cup {TestSeries} : \E L \in 0..Len(X), quarter \in 0..1 :
        Call("lag_window", [X |-> X, L |-> L, quarter |-> quarter], lag_window(X, L, quarter))

Call_half_coherences ==
    /\ pc = "idle"
    /\ \E B \in {b \in 1..MaxK : b % 2 = 1} : \E hSs \in HalfPeriodogramFactors(B) :
        Call("half_coherences", [B |-> B, hSs |-> hSs], Returned(half_coherences(hSs)))

Call_coherences ==
    /\ pc = "idle"
    /\ \E B \in {b \in 1..MaxK : b % 2 = 1} : \E hSs \in HalfPeriodogramFactors(B) :
        Call("coherences", [B |-> B, hSs |-> hSs], coherences(hSs))

\* the caller takes the result; nothing of a call persists
Call_matmul ==
    /\ pc = "idle"
    /\ \E sh \in MatmulShapes, dtype_a \in Dtypes, dtype_b \in Dtypes :
        \E a \in MxArrays(dtype_a, sh[1], sh[2]), b \in MxArrays(dtype_b, sh[2], sh[3]) :
            Call("mx_matmul", [a |-> a, b |-> b], Returned(mx_matmul(a, b)))

Return ==
    /\ pc = "done"
    /\ pc' = "idle"
    /\ fn' = ""
    /\ args' = <<>>
    /\ ret' = Returned(<<>>)
    /\ stages' = <<>>

Next ==
    \/ Call_smooth
    \/ Call_select_indices
    \/ Call_get_B_spaced_freqs_mask
    \/ Call_is_B_valid
    \/ Call_periodogram
    \/ Call_smoothed_periodogram
    \/ Call_compute_autocors
    \/ Call_lag_window
    \/ Call_half_coherences
    \/ Call_coherences
    \/ Call_matmul
    \/ Return

Spec == Init /\ [][Next]_vars

(***************************************************************************)
(* Properties.                                                             *)
(***************************************************************************)
RECURSIVE CircularSum(_, _, _, _)
\* the entrywise sum of x at the 0-based positions (k + d) mod n for d = lo..hi
CircularSum(x, k, lo, hi) ==
    LET here == x[((k + lo) % Len(x)) + 1]
    IN  IF lo = hi THEN here ELSE VecAdd(here, CircularSum(x, k, lo + 1, hi))

StrictlyIncreasing(s) == \A i \in 1..(Len(s) - 1) : s[i] < s[i + 1]

\* C2: for an odd B with (B-1)/2 <= n, _smooth returns n entries, entry k being
\* the mean of the B input entries at (k+d) mod n, d = -(B-1)/2..(B-1)/2; B = 1
\* returns x unchanged and B = 3 on [1,2,3,4,5] gives [8/3, 2, 3, 4, 10/3].
C2_SmoothIsCircularMean ==
    (pc = "done" /\ fn = "_smooth" /\ args.B % 2 = 1 /\ (args.B - 1) \div 2 <= Len(args.x)) =>
        LET x == args.x
            B == args.B
            h == (B - 1) \div 2
        IN  /\ ret.raised = ""
            /\ Len(ret.value) = Len(x)
            /\ \A k \in 1..Len(x) :
                   /\ ret.value[k].den = B
                   /\ ret.value[k].num = CircularSum(x, k - 1, -h, h)
            /\ (B = 1) => \A k \in 1..Len(x) : ret.value[k].num = x[k] /\ ret.value[k].den = 1
            /\ (B = 3 /\ x = TestStack) =>
                   /\ [k \in 1..5 |-> ret.value[k].num[1]] = <<8, 6, 9, 12, 10>>
                   /\ \A k \in 1..5 : ret.value[k].num[2] = 0 /\ ret.value[k].den = 3

\* C2 witness: the wrap-around case of the test, B = 3 on [1,2,3,4,5], smoothed
C2_Witness ==
    /\ pc = "done" /\ fn = "_smooth" /\ args.B = 3 /\ args.x = TestStack
    /\ ret.raised = ""
    /\ ret.value[1].num = <<8, 0>> /\ ret.value[5].num = <<10, 0>>

\* C4 as stated: min(n, target_count) indices in [0, n), strictly increasing;
\* arange(n) when n <= target_count; both 0 and n-1 whenever n > target_count;
\* (10, 3) gives [0, 4, 9].
C4_Original ==
    (pc = "done" /\ fn = "_select_indices") =>
        LET n == args.n
            t == args.target_count
            r == ret.value
        IN  /\ Len(r) = Min(n, t)
            /\ \A i \in 1..Len(r) : r[i] >= 0 /\ r[i] < n
            /\ StrictlyIncreasing(r)
            /\ (n <= t) => r = arange(n)
            /\ (n > t) => (\E i \in 1..Len(r) : r[i] = 0) /\ (\E i \in 1..Len(r) : r[i] = n - 1)
            /\ (n = 10 /\ t = 3) => r = <<0, 4, 9>>

\* C4 (amended): min(n, target_count) indices in [0, n), strictly increasing;
\* arange(n) when n <= target_count; when n > target_count the first index is 0,
\* and the last index is n-1 provided target_count >= 2 (a single requested
\* index is 0 alone); (10, 3) gives [0, 4, 9].
C4_SelectIndices ==
    (pc = "done" /\ fn = "_select_indices") =>
        LET n == args.n
            t == args.target_count
            r == ret.value
        IN  /\ Len(r) = Min(n, t)
            /\ \A i \in 1..Len(r) : r[i] >= 0 /\ r[i] < n
            /\ StrictlyIncreasing(r)
            /\ (n <= t) => r = arange(n)
            /\ (n > t) => r[1] = 0
            /\ (n > t /\ t >= 2) => r[Len(r)] = n - 1
            /\ (n > t /\ t = 1) => r = <<0>>
            /\ (n = 10 /\ t = 3) => r = <<0, 4, 9>>

\* C4 witness: the subsampling example, whose middle point 4.5 is a rounding tie
C4_Witness ==
    /\ pc = "done" /\ fn = "_select_indices" /\ args.n = 10 /\ args.target_count = 3
    /\ ret.value = <<0, 4, 9>>

\* C8: _is_B_valid(B, n_samples) is True exactly for the odd B in 1..n_samples-1.
C8_IsBValid ==
    (pc = "done" /\ fn = "_is_B_valid") =>
        /\ ret.value = (\E k \in 0..MaxN : args.B = 2 * k + 1 /\ args.B <= args.n_samples - 1)
        /\ (args.B < 0 \/ args.B >= args.n_samples \/ args.n_samples <= 1) => ret.value = FALSE
        /\ (\E k \in (-1)..MaxN : args.B = 2 * k) => ret.value = FALSE

\* C8 witness: the smallest valid B accepted, and B = n_samples refused
C8_Witness ==
    /\ pc = "done" /\ fn = "_is_B_valid"
    /\ \/ args.B = 1 /\ args.n_samples = 2 /\ ret.value = TRUE
       \/ args.B = 3 /\ args.n_samples = 3 /\ ret.value = FALSE

\* C10: _get_B_spaced_freqs_mask returns n_samples booleans, True at index i
\* exactly when i is a multiple of B, so ceil(n_samples / B) of them are True.
C10_BSpacedMask ==
    (pc = "done" /\ fn = "_get_B_spaced_freqs_mask") =>
        LET n == args.n_samples
            B == args.B
            m == ret.value
        IN  /\ Len(m) = n
            /\ \A i \in 0..(n - 1) : m[i + 1] = (i % B = 0)
            /\ m[1] = TRUE
            /\ Cardinality({i \in 1..n : m[i]}) = (n + B - 1) \div B

\* C10 witness: the mask of the test, (5, 3) gives True at 0 and 3 only
C10_Witness ==
    /\ pc = "done" /\ fn = "_get_B_spaced_freqs_mask"
    /\ args.n_samples = 5 /\ args.B = 3
    /\ ret.value = <<TRUE, FALSE, FALSE, TRUE, FALSE>>

\* the raw bin (position on the full sorted grid, from 0) of the frequency k/n
RawBin(k, n) == k + n \div 2

\* C1: for odd B with 0 < B < N and n_max_freqs >= 1, every (matrix, frequency)
\* pair of smoothed_periodogram(x, B, n_max_freqs) is the pair of
\* smoothed_periodogram(x, B) at that frequency: the matrix is the mean of the
\* periodogram over exactly the B circular neighbours of the bin on the full grid.
C1_SubsampledEqualsFullGrid ==
    (/\ pc = "done" /\ fn = "smoothed_periodogram" /\ args.x.sane
     /\ args.B > 0 /\ args.B < args.x.n_samples /\ args.B % 2 = 1
     /\ args.n_max_freqs # None /\ args.n_max_freqs[1] >= 1) =>
        LET n == args.x.n_samples
            B == args.B
            h == (B - 1) \div 2
            full == smoothed_periodogram(args.x, B, None)
        IN  /\ ret.raised = ""
            /\ full.raised = ""
            /\ Len(ret.value.matrices) = Len(ret.value.freqs)
            /\ \A i \in 1..Len(ret.value.freqs) :
                   LET k == ret.value.freqs[i]
                       mat == ret.value.matrices[i]
                   IN  /\ \E p \in 1..Len(full.value.freqs) :
                              full.value.freqs[p] = k /\ full.value.matrices[p] = mat
                       /\ mat.den = B
                       \* bin j (coefficient j of the transform) is at frequency j mod n
                       /\ \A j \in 0..(n - 1) :
                              mat.num[j + 1] =
                                  (IF \E d \in (-h)..h : (RawBin(k, n) + d) % n = RawBin(Take(fftfreq(n), <<j>>)[1], n)
                                   THEN 1 ELSE 0)

\* C1 witness: a subsampled call with B >= 3 whose retained bins leave gaps
C1_Witness ==
    /\ pc = "done" /\ fn = "smoothed_periodogram" /\ args.x.sane
    /\ args.B >= 3 /\ args.n_max_freqs # None /\ ret.raised = ""
    /\ Len(ret.value.freqs) >= 2
    /\ Len(_periodogram(args.x, args.n_max_freqs, Some(args.B)).value.freqs) < args.x.n_samples

\* C3: the estimation mask of _periodogram is True exactly at the retained
\* positions whose raw index _select_indices chose; smoothed_periodogram returns
\* min(N, n_max_freqs) pairs in strictly increasing frequency order; without
\* n_max_freqs the mask is all True and N pairs are returned.
C3_MaskMarksSelected ==
    /\ (/\ pc = "done" /\ fn = "_periodogram"
        /\ args.n_max_freqs # None /\ args.B # None
        /\ args.n_max_freqs[1] >= 1 /\ args.B[1] >= 1) =>
           LET n == args.x.n_samples
               chosen == Range(_select_indices(n, args.n_max_freqs[1]))
           IN  /\ ret.raised = ""
               /\ Len(ret.value.mask_estimated_freqs) = Len(ret.value.freqs)
               /\ \A p \in 1..Len(ret.value.freqs) :
                      ret.value.mask_estimated_freqs[p] = (RawBin(ret.value.freqs[p], n) \in chosen)
    /\ (pc = "done" /\ fn = "_periodogram" /\ args.n_max_freqs = None /\ args.B = None) =>
           /\ ret.raised = ""
           /\ Len(ret.value.mask_estimated_freqs) = args.x.n_samples
           /\ \A p \in 1..args.x.n_samples : ret.value.mask_estimated_freqs[p] = TRUE
    /\ (/\ pc = "done" /\ fn = "smoothed_periodogram" /\ ret.raised = "") =>
           LET n == args.x.n_samples
               count == IF args.n_max_freqs = None THEN n ELSE Min(n, args.n_max_freqs[1])
           IN  /\ Len(ret.value.freqs) = count
               /\ Len(ret.value.matrices) = count
               /\ StrictlyIncreasing(ret.value.freqs)

\* C3 witness: the mask of the test, neighbours retained but not reported
C3_Witness ==
    /\ pc = "done" /\ fn = "_periodogram" /\ args.x.n_samples = 5
    /\ args.n_max_freqs = Some(3) /\ args.B = Some(3)
    /\ ret.value.mask_estimated_freqs = <<TRUE, FALSE, TRUE, FALSE, TRUE>>

\* C5: for a valid series smoothed_periodogram raises, returning nothing, if and
\* only if B <= 0, or B is even, or B >= N, or n_max_freqs is given and <= 0;
\* otherwise it returns a (matrices, frequencies) pair.
C5_RaisesExactlyOnBadParameters ==
    (pc = "done" /\ fn = "smoothed_periodogram" /\ args.x.sane) =>
        LET bad == \/ args.B <= 0
                   \/ \E k \in 0..MaxN : args.B = 2 * k
                   \/ args.B >= args.x.n_samples
                   \/ (args.n_max_freqs # None /\ args.n_max_freqs[1] <= 0)
        IN  /\ (ret.raised # "") = bad
            /\ (ret.raised # "") => ret.value = <<>>
            /\ (ret.raised = "") =>
                   /\ DOMAIN ret.value = {"matrices", "freqs"}
                   /\ Len(ret.value.matrices) = Len(ret.value.freqs)

\* C5 witness: a valid B with n_max_freqs = 0 raises; a valid call returns
C5_Witness ==
    /\ pc = "done" /\ fn = "smoothed_periodogram" /\ args.x.sane
    /\ args.B = 3 /\ args.x.n_samples = 5
    /\ \/ args.n_max_freqs = Some(0) /\ ret.raised # ""
       \/ args.n_max_freqs = Some(2) /\ ret.raised = ""

\* the diagonal value of channel m at frequency f: the sum over the B axis of
\* the squared magnitudes of the factor
Diagonal(hSs, f, m) ==
    LET sq == [k \in 1..Len(hSs[f]) |->
                  <<hSs[f][k][m].re.num * hSs[f][k][m].re.num
                        + hSs[f][k][m].im.num * hSs[f][k][m].im.num, 0>>]
    IN  ZSum(sq, Len(hSs[f]))[1]

Degenerate(hSs) ==
    \E f \in 1..Len(hSs) : \E m \in 1..Len(hSs[f][1]) : Diagonal(hSs, f, m) <= 0

\* C6: whenever a channel's diagonal value is zero or negative at some
\* frequency, half_coherences / coherences raise an error instead of returning
\* a result containing inf or NaN.
C6_DegenerateDiagonalRaises ==
    (pc = "done" /\ fn \in {"half_coherences", "coherences"} /\ Degenerate(args.hSs)) =>
        ret.raised # ""

\* two reals num/sqrt(rad) are the same number
REq(a, b) ==
    /\ a.kind = "fin" /\ b.kind = "fin"
    /\ Sign(a.num) = Sign(b.num)
    /\ a.num * a.num * b.rad = b.num * b.num * a.rad

\* C7: for a factor with strictly positive diagonals, coherences returns Cs with
\* Cs[f,m,m] = 1 and Cs[f,l,m] = conj(Cs[f,m,l]); with one channel the result
\* is 1+0i at every frequency.
C7_UnitDiagonalHermitian ==
    (pc = "done" /\ fn = "coherences" /\ ~Degenerate(args.hSs)) =>
        LET Cs == ret.value
            M == Len(args.hSs[1][1])
        IN  /\ ret.raised = ""
            /\ Len(Cs) = Len(args.hSs)
            /\ \A f \in 1..Len(Cs) :
                   /\ Len(Cs[f]) = M
                   /\ \A m \in 1..M : REq(Cs[f][m][m].re, ROne) /\ REq(Cs[f][m][m].im, RZero)
                   /\ \A l, m \in 1..M :
                          /\ REq(Cs[f][l][m].re, Cs[f][m][l].re)
                          /\ REq(Cs[f][l][m].im, RNeg(Cs[f][m][l].im))
                   /\ (M = 1) => Cs[f] = <<(<<Complex(RFin(Cs[f][1][1].re.num, Cs[f][1][1].re.rad), RZero)>>)>>

\* C7 witness: two channels, positive diagonals, a cross term with a non-zero
\* imaginary part
C7_Witness ==
    /\ pc = "done" /\ fn = "coherences" /\ ~Degenerate(args.hSs)
    /\ Len(args.hSs[1][1]) = 2 /\ args.B = 3
    /\ ret.value[1][1][2].im.num # 0
    /\ ret.value[1][1][2].re.num # 0

\* C9: for 0 <= L < N, _compute_autocors returns 2L+1 rows: the centre row is
\* the per-channel mean squared magnitude, row L+l the mean of the N-l products
\* x[t+l]*conj(x[t]), row L-l its conjugate; lag_window at nu = 0 is the sum of
\* all 2L+1 rows.
C9_AutocorsTable ==
    /\ (pc = "done" /\ fn = "_compute_autocors" /\ args.L >= 0 /\ args.L < Len(args.x)) =>
           LET x == args.x
               N == Len(x)
               L == args.L
               M == Len(x[1])
               r == ret.value
           IN  /\ ret.raised = ""
               /\ Len(r) = 2 * L + 1
               /\ \A m \in 1..M :
                      /\ r[L + 1][m].den = N
                      /\ r[L + 1][m].im = 0
                      /\ r[L + 1][m].re =
                             ZSum([t \in 1..N |-> <<x[t][m][1] * x[t][m][1] + x[t][m][2] * x[t][m][2], 0>>], N)[1]
                      /\ \A l \in 1..L :
                             /\ r[L + 1 + l][m].den = N - l
                             /\ <<r[L + 1 + l][m].re, r[L + 1 + l][m].im>> =
                                    ZSum([t \in 1..(N - l) |-> ZMul(x[t + l][m], ZConj(x[t][m]))], N - l)
                             /\ r[L + 1 - l][m] = QConj(r[L + 1 + l][m])
    /\ (pc = "done" /\ fn = "lag_window" /\ args.quarter = 0 /\ args.L >= 0 /\ args.L < Len(args.X)) =>
           LET rows == _compute_autocors(args.X, args.L)
               L == args.L
           IN  /\ ret.raised = ""
               /\ rows.raised = ""
               /\ \A m \in 1..Len(args.X[1]) :
                      LET total == QSum([i \in 1..(2 * L + 1) |-> rows.value[i][m]], 2 * L + 1)
                      IN  /\ ret.value[m].re * total.den = total.re * ret.value[m].den
                          /\ ret.value[m].im * total.den = total.im * ret.value[m].den
                          /\ ret.value[m].den > 0

\* the raw bins that section 4.4 retains: half_width circular neighbours on
\* each side of every selected index
NeighbourBins(n, n_max_freqs, half_width) ==
    {(i + d) % n : i \in Range(_select_indices(n, n_max_freqs)), d \in (-half_width)..half_width}

\* the raw bins a call of _periodogram retained, in the order returned
RetainedBins == [p \in 1..Len(ret.value.freqs) |-> RawBin(ret.value.freqs[p], args.x.n_samples)]

\* C11 as stated: with n_max_freqs >= 1 and any B >= 1, the retained raw bins
\* are exactly (i + d) mod N for the selected i and |d| <= (B-1)//2, without
\* duplicates and in increasing order.
C11_Original ==
    (/\ pc = "done" /\ fn = "_periodogram"
     /\ args.n_max_freqs # None /\ args.B # None
     /\ args.n_max_freqs[1] >= 1 /\ args.B[1] >= 1) =>
        /\ ret.raised = ""
        /\ Range(RetainedBins) =
               NeighbourBins(args.x.n_samples, args.n_max_freqs[1], (args.B[1] - 1) \div 2)
        /\ StrictlyIncreasing(RetainedBins)

\* C11 (amended): with n_max_freqs >= 1 and an odd B >= 1, the retained raw
\* bins are exactly (i + d) mod N for the selected i and |d| <= (B-1)//2,
\* without duplicates and in increasing order.
C11_RetainedBins ==
    (/\ pc = "done" /\ fn = "_periodogram"
     /\ args.n_max_freqs # None /\ args.B # None
     /\ args.n_max_freqs[1] >= 1 /\ args.B[1] >= 1 /\ args.B[1] % 2 = 1) =>
        /\ ret.raised = ""
        /\ Range(RetainedBins) =
               NeighbourBins(args.x.n_samples, args.n_max_freqs[1], (args.B[1] - 1) \div 2)
        /\ StrictlyIncreasing(RetainedBins)
        /\ Len(ret.value.periodogram) = Len(RetainedBins)

\* C11 witness: (10 samples, 3 frequencies, B = 3) retains 0,1 3,4,5 8,9: the
\* neighbours of 0 and 9 wrap around and bins 2, 6, 7 are left out
C11_Witness ==
    /\ pc = "done" /\ fn = "_periodogram" /\ args.x.n_samples = 10
    /\ args.n_max_freqs = Some(3) /\ args.B = Some(3)
    /\ RetainedBins = <<0, 1, 3, 4, 5, 8, 9>>

\* the order in which smoothed_periodogram enters its stages
StageOrder == <<"is_sane_time_series", "_is_B_valid", "_periodogram", "_smooth">>

\* C12: smoothed_periodogram validates the series first, then B, and only then
\* runs _periodogram (with its n_max_freqs check) and _smooth; a failure aborts
\* before any later stage: an invalid series with an invalid B fails with the
\* validation message, a valid series with an invalid B with the B message and
\* without _periodogram or _smooth having run.
C12_ChecksInOrder ==
    (pc = "done" /\ fn = "smoothed_periodogram") =>
        LET B == args.B
            sane == args.x.sane
            B_ok == \E k \in 0..MaxN : B = 2 * k + 1 /\ B < args.x.n_samples
            n_ok == args.n_max_freqs = None \/ args.n_max_freqs[1] > 0
        IN  /\ \E n \in 1..4 : stages = SubSeq(StageOrder, 1, n)
            /\ (Len(stages) < 4) = (ret.raised # "")
            /\ ~sane =>
                   /\ ret.raised = "AssertionError: invalid time series"
                   /\ stages = <<"is_sane_time_series">>
            /\ (sane /\ ~B_ok) =>
                   /\ ret.raised =
                          "AssertionError: B must be positive, smaller than the number of samples, and odd"
                   /\ stages = <<"is_sane_time_series", "_is_B_valid">>
            /\ (sane /\ B_ok /\ ~n_ok) =>
                   /\ ret.raised = "AssertionError: n_max_freqs must be positive"
                   /\ stages = <<"is_sane_time_series", "_is_B_valid", "_periodogram">>
            /\ (sane /\ B_ok /\ n_ok) => stages = StageOrder

\* C12 witness: an invalid series with an invalid (even) B, refused by the
\* validation alone
C12_Witness ==
    /\ pc = "done" /\ fn = "smoothed_periodogram"
    /\ ~args.x.sane /\ args.B = 2
    /\ ret.raised = "AssertionError: invalid time series"
    /\ stages = <<"is_sane_time_series">>

\* C13: for every N >= 1, _periodogram without selection returns the N
\* frequencies k/N, k from -floor(N/2) to ceil(N/2)-1, strictly increasing and
\* within [-0.5, 0.5), and the matrix at each position is the outer product of
\* the Fourier coefficient of that position's frequency (coefficient k mod N);
\* for N = 5 the DC bin is at position 2 with +f and -f symmetric around it.
C13_AscendingFrequencies ==
    (pc = "done" /\ fn = "_periodogram" /\ args.n_max_freqs = None /\ args.B = None) =>
        LET N == args.x.n_samples
            lo == -(N \div 2)
            hi == (N + 1) \div 2 - 1
            freqs == ret.value.freqs
            matrices == ret.value.periodogram
        IN  /\ ret.raised = ""
            /\ Len(freqs) = N /\ Len(matrices) = N
            /\ hi - lo + 1 = N
            /\ \A p \in 1..N : freqs[p] = lo + p - 1
            /\ StrictlyIncreasing(freqs)
            /\ \A p \in 1..N : -N <= 2 * freqs[p] /\ 2 * freqs[p] < N
            /\ \A p \in 1..N : \A j \in 1..N :
                   matrices[p][j] = IF j - 1 = freqs[p] % N THEN 1 ELSE 0
            /\ \A p \in 1..N : ret.value.mask_estimated_freqs[p]
            /\ N = 5 =>
                   /\ freqs[2 + 1] = 0 /\ matrices[2 + 1][0 + 1] = 1
                   /\ \A d \in 1..2 : freqs[3 + d] = d /\ freqs[3 - d] = -d

\* C13 witness: N = 5, the frequencies -2/5 .. 2/5 with the coefficients
\* 3, 4, 0, 1, 2 behind them
C13_Witness ==
    /\ pc = "done" /\ fn = "_periodogram" /\ args.n_max_freqs = None /\ args.B = None
    /\ args.x.n_samples = 5
    /\ ret.raised = ""
    /\ ret.value.freqs = <<-2, -1, 0, 1, 2>>
    /\ ret.value.periodogram[1] = <<0, 0, 0, 1, 0>>
    /\ ret.value.periodogram[3] = <<1, 0, 0, 0, 0>>

\* an array entry as the complex integer <<re, im>>, the imaginary part of a
\* real entry being 0
EntryZ(dtype, v) == IF dtype = "complex64" THEN <<v.re.num, v.im.num>> ELSE <<v.num, 0>>

\* C14: in each of the four dtype combinations mx_matmul(a, b) is the
\* mathematical complex matrix product, real part ar*br - ai*bi and imaginary
\* part ar*bi + ai*br with the imaginary part of a real operand 0, the parts
\* being those of mx_real and mx_imag (mx_imag of a+bi is b).
C14_MatmulIsComplexProduct ==
    (pc = "done" /\ fn = "mx_matmul") =>
        LET a == args.a
            b == args.b
            q == Len(b.data)
            out == ret.value
            Product(i, j) ==
                ZSum([k \in 1..q |->
                         ZMul(EntryZ(a.dtype, a.data[i][k]), EntryZ(b.dtype, b.data[k][j]))], q)
        IN  /\ ret.raised = ""
            /\ out.dtype = IF a.dtype = "float32" /\ b.dtype = "float32" THEN "float32" ELSE "complex64"
            /\ Len(out.data) = Len(a.data)
            /\ \A i \in 1..Len(a.data) :
                   /\ Len(out.data[i]) = Len(b.data[1])
                   /\ \A j \in 1..Len(b.data[1]) :
                          out.data[i][j] =
                              IF out.dtype = "complex64"
                              THEN Complex(RFin(Product(i, j)[1], 1), RFin(Product(i, j)[2], 1))
                              ELSE RFin(Product(i, j)[1], 1)
            /\ \A c \in {a, b} : c.dtype = "complex64" =>
                   \A i \in 1..Len(c.data) : \A j \in 1..Len(c.data[i]) :
                       /\ mx_real(c.data[i][j]) = c.data[i][j].re
                       /\ mx_imag(c.data[i][j]) = c.data[i][j].im

\* C14 witness: [i, 1] @ [i, i]^T = -1 + i, both operands complex
C14_Witness ==
    /\ pc = "done" /\ fn = "mx_matmul"
    /\ args.a = MxArray("complex64", <<(<<Complex(RZero, ROne), Complex(ROne, RZero)>>)>>)
    /\ args.b = MxArray("complex64", <<(<<Complex(RZero, ROne)>>), (<<Complex(RZero, ROne)>>)>>)
    /\ ret.value = MxArray("complex64", <<(<<Complex(RFin(-1, 1), ROne)>>)>>)

=============================================================================
